---- MODULE Spec2Model ----
(***************************************************************************)
(* RSASSA-PSS (RFC 3447 section 8.1) as implemented in pss.go and utils.go: *)
(* emsaPSSEncode, emsaPSSVerify, SignPSS, VerifyPSS, mgf1XOR, modInverse,   *)
(* encrypt, decrypt and copyWithLeftPad.                                    *)
(*                                                                         *)
(* Octets are 8-bit values 0..255 and octet strings are sequences of them.  *)
(* math/big integers are unbounded; the keys and inputs of this model are   *)
(* chosen so that every intermediate value stays below 2^31 (the products   *)
(* reduced modulo N are computed by MulMod, which never forms the full      *)
(* product).  The hash is a small deterministic function of configurable    *)
(* output size; the hash instance is modelled by the octets it has absorbed *)
(* since its last Reset.                                                    *)
(***************************************************************************)
EXTENDS Integers, Sequences, FiniteSets, TLC

\* ------------------------------------------------------------------ bounds

\* Blinding draws offered by the random source: 0..MaxDraw, the key's primes
\* and N-1.
MaxDraw == 3
\* Ciphertexts handed to decrypt directly: 0..MaxCipher, the primes, and the
\* values around N.
MaxCipher == 3
\* emsaPSSEncode called directly: emBits in 0..MaxEmBits.
MaxEmBits == 41
\* Largest hash output size offered (hash.Size() in 1..MaxHLen).
MaxHLen == 2
\* Salt lengths passed to VerifyPSS / emsaPSSVerify: -MaxNegSLen..MaxSLen.
MaxSLen == 2
MaxNegSLen == 4
\* Octet H of a crafted encoded message ranges over 0..MaxCraftH.
MaxCraftH == 3

\* ------------------------------------------------------- octets and bits

RECURSIVE Pow2(_)
Pow2(k) == IF k <= 0 THEN 1 ELSE 2 * Pow2(k - 1)

\* Bitwise operators on octets (Go's ^, & on byte values).
RECURSIVE BitOp(_, _, _, _)
BitOp(op, a, b, k) ==
    IF k = 0 THEN 0
    ELSE LET x == a % 2
             y == b % 2
             z == IF op = "xor" THEN (x + y) % 2 ELSE x * y
         IN  z + 2 * BitOp(op, a \div 2, b \div 2, k - 1)

Xor(a, b) == BitOp("xor", a, b, 8)
And(a, b) == BitOp("and", a, b, 8)

\* 0xFF >> uint(k) and 0xFF << uint(k), both truncated to a byte as Go does
\* for a byte operand; a shift count of 8 or more yields 0, and so does a
\* negative k, which uint() turns into a huge count.
\* ShrFF shifting by one position too few: what C10 must tell from ShrFF.
ShrFFWide(k) == IF k <= 0 \/ k > 8 THEN 255 ELSE 255 \div Pow2(k - 1)
ShrFF(k) == IF k < 0 \/ k >= 8 THEN 0 ELSE 255 \div Pow2(k)
ShlFF(k) == IF k < 0 \/ k >= 8 THEN 0 ELSE (255 * Pow2(k)) % 256

\* Go's integer division truncates toward zero.
GoDiv(a, b) == IF a >= 0 THEN a \div b ELSE -((-a) \div b)

Zeros(n) == [i \in 1..n |-> 0]

\* big.Int.SetBytes: big-endian octet string to integer.
RECURSIVE BytesToIntN(_, _)
BytesToIntN(bs, n) ==
    IF n = 0 THEN 0 ELSE 256 * BytesToIntN(bs, n - 1) + bs[n]

BytesToInt(bs) == BytesToIntN(bs, Len(bs))

\* big.Int.Bytes: minimal big-endian octet string (empty for 0).
RECURSIVE IntToBytes(_)
IntToBytes(n) ==
    IF n = 0 THEN <<>> ELSE Append(IntToBytes(n \div 256), n % 256)

\* big.Int.BitLen.
RECURSIVE BitLen(_)
BitLen(n) == IF n = 0 THEN 0 ELSE 1 + BitLen(n \div 2)

\* ------------------------------------------------------ big arithmetic

\* (a * b) mod n for 0 <= a, b < n <= 2^26 without forming a * b: b is taken
\* four bits at a time, so no intermediate value reaches 2^31.
RECURSIVE MulModR(_, _, _)
MulModR(a, b, n) ==
    IF a = 0 \/ b < 16 THEN (a * b) % n
    ELSE (MulModR(a, b \div 16, n) * 16 + a * (b % 16)) % n

MulMod(a, b, n) == MulModR(a % n, b % n, n)

\* Right-to-left binary exponentiation: acc * base^e mod m.  The next acc
\* and base are bound by a set constructor, which makes TLC compute each
\* of them once, as a value, whatever the mode it evaluates in.
RECURSIVE ModExpLoop(_, _, _, _)
ModExpLoop(acc, base, e, m) ==
    IF e = 0 THEN acc
    ELSE LET next == <<IF e % 2 = 1 THEN MulMod(acc, base, m) ELSE acc,
                       MulMod(base, base, m)>>
         IN  CHOOSE r \in {ModExpLoop(s[1], s[2], e \div 2, m) :
                               s \in {next}} : TRUE

\* big.Int.Exp(x, y, m) for m > 0: x^y mod m, and 1 mod m when y <= 0.
ModExp(x, y, m) ==
    IF y <= 0 THEN 1 % m ELSE ModExpLoop(1 % m, x % m, y, m)

\* big.Int.GCD(x, y, a, b) for a, b > 0: [g, x, y] with a*x + b*y = g.
RECURSIVE ExtGCD(_, _)
ExtGCD(a, b) ==
    IF b = 0 THEN [g |-> a, x |-> 1, y |-> 0]
    ELSE LET t == ExtGCD(b, a % b)
         IN  [g |-> t.g, x |-> t.y, y |-> t.x - (a \div b) * t.y]

\* ------------------------------------------------------- hash.Hash

\* The toy digest behind hash.Sum: octet j of the digest of the absorbed
\* octets, for j in 1..size.
RECURSIVE HashFold(_, _, _)
HashFold(data, j, acc) ==
    IF data = <<>> THEN acc
    ELSE HashFold(Tail(data), j, (acc * (29 + 2 * j) + Head(data) + j) % 256)

\* hash.New(): a reset instance of output size n.
HashNew(n) == [size |-> n, buf |-> <<>>]
HashWrite(h, p) == [h EXCEPT !.buf = h.buf \o p]
HashSum(h) == [j \in 1..h.size |-> HashFold(h.buf, j, (17 * j) % 256)]
HashReset(h) == [h EXCEPT !.buf = <<>>]

\* ------------------------------------------------------- utils.go

\* incCounter: increments a four byte, big-endian counter (1-based here).
incCounter(c) ==
    LET b3 == (c[4] + 1) % 256
        b2 == (c[3] + 1) % 256
        b1 == (c[2] + 1) % 256
        b0 == (c[1] + 1) % 256
    IN  IF b3 # 0 THEN <<c[1], c[2], c[3], b3>>
        ELSE IF b2 # 0 THEN <<c[1], c[2], b2, b3>>
        ELSE IF b1 # 0 THEN <<c[1], b1, b2, b3>>
        ELSE <<b0, b1, b2, b3>>

\* The inner for loop of mgf1XOR: out[done] ^= digest[i]; done++.
Mgf1Block(out, digest, done) ==
    [k \in 1..Len(out) |->
        IF k > done /\ k <= done + Len(digest)
        THEN Xor(out[k], digest[k - done]) ELSE out[k]]

\* The outer loop of mgf1XOR; yields the masked buffer and the hash instance.
RECURSIVE Mgf1Loop(_, _, _, _, _)
Mgf1Loop(out, hash, seed, counter, done) ==
    IF done >= Len(out) THEN [out |-> out, hash |-> hash]
    ELSE LET h1     == HashWrite(HashWrite(hash, seed), counter)
             digest == HashSum(h1)
             n      == IF Len(digest) < Len(out) - done
                       THEN Len(digest) ELSE Len(out) - done
         IN  Mgf1Loop(Mgf1Block(out, digest, done), HashReset(h1), seed,
                      incCounter(counter), done + n)

mgf1XOR(out, hash, seed) == Mgf1Loop(out, hash, seed, <<0, 0, 0, 0>>, 0)

\* copyWithLeftPad padding on the right: what C1 must tell from it.
copyWithRightPad(dest, src) ==
    [k \in 1..Len(dest) |-> IF k <= Len(src) THEN src[k] ELSE 0]

\* copyWithLeftPad(dest, src): dest after the call, for len(src) <= len(dest).
copyWithLeftPad(dest, src) ==
    LET numPaddingBytes == Len(dest) - Len(src)
    IN  [k \in 1..Len(dest) |->
            IF k <= numPaddingBytes THEN 0 ELSE src[k - numPaddingBytes]]

\* modInverse never reporting failure: what C9 must tell from modInverse.
modInverseUnchecked(a, n) ==
    LET t == ExtGCD(a, n)
    IN  IF t.x < 1 THEN <<t.x + n>> ELSE <<t.x>>

\* modInverse(a, n): <<ia>> when ok, <<>> when a and n are not coprime.
modInverse(a, n) ==
    LET t == ExtGCD(a, n)
    IN  IF t.g # 1 THEN <<>>
        ELSE IF t.x < 1 THEN <<t.x + n>> ELSE <<t.x>>

\* encrypt: c = m^E mod N.
encrypt(pub, m) == ModExp(m, pub.E, pub.N)

\* ------------------------------------------------------- pss.go

NoError == "nil"
ErrHashed == "crypto/rsa: input must be hashed message"
ErrEncoding == "crypto/rsa: encoding error"
ErrVerification == "rsa.ErrVerification"
ErrDecryption == "rsa.ErrDecryption"
\* A run-time panic (index or slice bounds out of range).
Panic == "panic"

prefix == <<0, 0, 0, 0, 0, 0, 0, 0>>

\* db[0] &= mask, for a db of length 1 or more.
MaskFirst(db, mask) ==
    [k \in 1..Len(db) |-> IF k = 1 THEN And(db[1], mask) ELSE db[k]]

\* The length test of emsaPSSEncode asking one octet too many: what C6 must
\* tell from EncodeTooShort.
EncodeTooShortStrict(emLen, hLen, sLen) == emLen < hLen + sLen + 3

\* emsaPSSEncode, line 33: emLen < hLen+sLen+2.
EncodeTooShort(emLen, hLen, sLen) == emLen < hLen + sLen + 2

\* emsaPSSEncode: [em, err, hash], hash being the instance as the call
\* leaves it.
emsaPSSEncode(mHash, emBits, salt, hash) ==
    LET hLen  == hash.size
        sLen  == Len(salt)
        emLen == GoDiv(emBits + 7, 8)
        psLen == emLen - sLen - hLen - 2
        hw    == HashWrite(HashWrite(HashWrite(hash, prefix), mHash), salt)
        h     == HashSum(hw)
        db0   == [k \in 1..(emLen - hLen - 1) |->
                    IF k <= psLen THEN 0
                    ELSE IF k = psLen + 1 THEN 1
                    ELSE salt[k - psLen - 1]]
        mg    == mgf1XOR(db0, HashReset(hw), h)
        db    == MaskFirst(mg.out, ShrFF(8 * emLen - emBits))
    IN  IF Len(mHash) # hLen
        THEN [em |-> <<>>, err |-> ErrHashed, hash |-> hash]
        ELSE IF EncodeTooShort(emLen, hLen, sLen)
        THEN [em |-> <<>>, err |-> ErrEncoding, hash |-> hash]
        ELSE [em |-> db \o h \o <<188>>, err |-> NoError, hash |-> mg.hash]

\* The final loop of emsaPSSVerify: for i, e := range h0 { if e != h[i] }.
RECURSIVE CompareH(_, _, _)
CompareH(h0, h, i) ==
    IF i > Len(h0) THEN NoError
    ELSE IF i > Len(h) THEN Panic
    ELSE IF h0[i] # h[i] THEN ErrVerification
    ELSE CompareH(h0, h, i + 1)

\* emsaPSSVerify: [err, hash]; err is NoError, ErrVerification or Panic, and
\* hash is the instance as the call leaves it.  em is a slice whose capacity
\* equals its length (VerifyPSS makes it so).
emsaPSSVerify(mHash, em, emBits, sLen, hash) ==
    LET hLen  == hash.size
        emLen == GoDiv(emBits + 7, 8)
        dbLen == emLen - hLen - 1
        lead  == emLen - hLen - sLen - 2
        h     == SubSeq(em, dbLen + 1, Len(em) - 1)
        mg    == mgf1XOR(SubSeq(em, 1, dbLen), hash, h)
        db    == MaskFirst(mg.out, ShrFF(8 * emLen - emBits))
        \* the array under em after the in-place writes through db
        arr   == db \o SubSeq(em, dbLen + 1, Len(em))
        salt  == SubSeq(db, Len(db) - sLen + 1, Len(db))
        hw    == HashWrite(HashWrite(HashWrite(mg.hash, prefix), mHash), salt)
        h0    == HashSum(hw)
        R(e, hs) == [err |-> e, hash |-> hs]
    IN  IF hLen # Len(mHash) THEN R(ErrVerification, hash)
        ELSE IF emLen < hLen + sLen + 2 THEN R(ErrVerification, hash)
        ELSE IF Len(em) = 0 THEN R(Panic, hash)
        ELSE IF em[Len(em)] # 188 THEN R(ErrVerification, hash)
        ELSE IF dbLen < 0 \/ dbLen > Len(em) THEN R(Panic, hash)
        ELSE IF dbLen > Len(em) - 1 THEN R(Panic, hash)
        ELSE IF And(em[1], ShlFF(8 - (8 * emLen - emBits))) # 0
        THEN R(ErrVerification, hash)
        ELSE IF dbLen = 0 THEN R(Panic, mg.hash)
        ELSE IF lead > Len(em) THEN R(Panic, mg.hash)
        ELSE IF \E k \in 1..lead : arr[k] # 0 THEN R(ErrVerification, mg.hash)
        ELSE IF lead >= Len(db) THEN R(Panic, mg.hash)
        ELSE IF db[lead + 1] # 1 THEN R(ErrVerification, mg.hash)
        ELSE IF sLen < 0 \/ sLen > Len(db) THEN R(Panic, mg.hash)
        ELSE R(CompareH(h0, h, 1), hw)

\* The public half of a private key.
PublicKey(priv) == [N |-> priv.N, E |-> priv.E]

\* VerifyPSS: [err, hash], hash being the instance made by hash.New() as
\* emsaPSSVerify leaves it.
VerifyPSS(pub, hLen, hashed, sig, sLen) ==
    LET s      == BytesToInt(sig)
        m      == encrypt(pub, s)
        emBits == BitLen(pub.N) - 1
        emLen  == GoDiv(emBits + 7, 8)
        mBytes == IntToBytes(m)
        em     == copyWithLeftPad(Zeros(emLen), mBytes)
    IN  IF emLen < Len(mBytes)
        THEN [err |-> ErrVerification, hash |-> HashNew(hLen)]
        ELSE emsaPSSVerify(hashed, em, BitLen(pub.N) - 1, sLen, HashNew(hLen))

\* ------------------------------------------------------- keys

\* rsa.PrivateKey values as crypto/rsa builds them (D = E^-1 mod phi(N), and
\* Precompute's Dp, Dq, Qinv and CRTValues).  An absent *big.Int is <<>>, a
\* present one <<v>>.
\* KeyA: 2 primes, bitlength(N) = 18, emBits = 17, emLen = 3
KeyA ==
    [N |-> 136891, E |-> 5, D |-> 54461,
     Primes |-> <<367, 373>>,
     Precomputed |-> [Dp |-> <<293>>, Dq |-> <<149>>, Qinv |-> <<306>>,
                     CRTValues |-> <<>>]]
\* KeyB: 2 primes (the larger first), bitlength(N) = 25, emBits = 24, emLen = 3
KeyB ==
    [N |-> 16850989, E |-> 7, D |-> 4812223,
     Primes |-> <<4111, 4099>>,
     Precomputed |-> [Dp |-> <<3523>>, Dq |-> <<1171>>, Qinv |-> <<2398>>,
                     CRTValues |-> <<>>]]
\* KeyC: 3 primes, bitlength(N) = 18
KeyC ==
    [N |-> 146969, E |-> 3, D |-> 92491,
     Primes |-> <<47, 53, 59>>,
     Precomputed |-> [Dp |-> <<31>>, Dq |-> <<35>>, Qinv |-> <<8>>,
                     CRTValues |-> <<[Exp |-> 39, Coeff |-> 50, R |-> 2491]>>]]
\* KeyD: 4 primes, bitlength(N) = 18
KeyD ==
    [N |-> 215441, E |-> 5, D |-> 106445,
     Primes |-> <<17, 19, 23, 29>>,
     Precomputed |-> [Dp |-> <<13>>, Dq |-> <<11>>, Qinv |-> <<9>>,
                     CRTValues |-> <<[Exp |-> 9, Coeff |-> 1, R |-> 323],
                                     [Exp |-> 17, Coeff |-> 6, R |-> 7429]>>]]
\* KeyE: 2 primes, bitlength(N) = 26, emBits = 25, emLen = 4
KeyE ==
    [N |-> 49098013, E |-> 3, D |-> 32722667,
     Primes |-> <<7001, 7013>>,
     Precomputed |-> [Dp |-> <<4667>>, Dq |-> <<4675>>, Qinv |-> <<4084>>,
                     CRTValues |-> <<>>]]

\* The same key before Precompute() was called on it.
NotPrecomputed(k) ==
    [k EXCEPT !.Precomputed =
        [Dp |-> <<>>, Dq |-> <<>>, Qinv |-> <<>>, CRTValues |-> <<>>]]

PrecomputedKeys == {KeyA, KeyB, KeyC, KeyD, KeyE}
PlainKeys == {NotPrecomputed(k) : k \in PrecomputedKeys}
Keys == PrecomputedKeys \cup PlainKeys

\* ------------------------------------------------------- decrypt

ErrRandom == "random source error"

\* The loop over CRTValues left out: what C5 must tell from CRTLoop.
CRTLoopSkipped(priv, c, m, i) == m

\* decrypt, lines 137-147: the loop over the CRT values of the primes after
\* the second.
RECURSIVE CRTLoop(_, _, _, _)
CRTLoop(priv, c, m, i) ==
    IF i > Len(priv.Precomputed.CRTValues) THEN m
    ELSE LET values == priv.Precomputed.CRTValues[i]
             prime  == priv.Primes[2 + i]
             e1     == ModExp(c, values.Exp, prime)
             e2     == e1 - m
             e3     == e2 * values.Coeff
             e4     == e3 % prime
             e5     == IF e4 < 0 THEN e4 + prime ELSE e4
             m2     == e5 * values.R
         IN  CRTLoop(priv, c, m + m2, i + 1)

\* decrypt, lines 121-148: the private exponentiation, direct or by CRT.
decryptExp(priv, c) ==
    IF priv.Precomputed.Dp = <<>>
    THEN ModExp(c, priv.D, priv.N)
    ELSE LET m1 == ModExp(c, priv.Precomputed.Dp[1], priv.Primes[1])
             m2 == ModExp(c, priv.Precomputed.Dq[1], priv.Primes[2])
             d1 == m1 - m2
             d2 == IF d1 < 0 THEN d1 + priv.Primes[1] ELSE d1
             d3 == d2 * priv.Precomputed.Qinv[1]
             d4 == d3 % priv.Primes[1]
             d5 == d4 * priv.Primes[2]
         IN  CRTLoop(priv, c, d5 + m2, 1)

\* decrypt from its entry up to its return or its first rand.Int call.  The
\* record is decrypt's activation: its arguments, its locals r and ir, its
\* results m and err, and where it stands.
decryptEnter(random, priv, c) ==
    LET a == [priv |-> priv, random |-> random, c |-> c,
              r |-> <<>>, ir |-> <<>>, m |-> <<>>, err |-> NoError,
              at |-> "return"]
    IN  IF c > priv.N THEN [a EXCEPT !.err = ErrDecryption]
        ELSE IF random THEN [a EXCEPT !.at = "rand.Int"]
        ELSE [a EXCEPT !.m = <<decryptExp(priv, c)>>]

\* Unblinding left out: what C4 must tell from unblind.
unblindSkipped(m, ir, n) == m % n

\* decrypt, lines 150-154: m = m * ir mod N.
unblind(m, ir, n) == MulMod(m, ir, n)

\* One turn of the blinding loop on rand.Int returning (r0, nil), and, when
\* the loop breaks, the rest of decrypt.
decryptDraw(a, r0) ==
    LET r     == IF r0 = 0 THEN 1 ELSE r0
        ir    == modInverse(r, a.priv.N)
        rpowe == ModExp(r, a.priv.E, a.priv.N)
        cCopy == MulMod(a.c, rpowe, a.priv.N)
        m     == decryptExp(a.priv, cCopy)
    IN  IF ir = <<>>
        THEN [a EXCEPT !.r = <<r>>, !.ir = <<>>]
        ELSE [a EXCEPT !.r = <<r>>, !.ir = ir,
                       !.m = <<unblind(m, ir[1], a.priv.N)>>, !.at = "return"]

\* rand.Int returning an error: decrypt returns it.
decryptRandErr(a) == [a EXCEPT !.err = ErrRandom, !.at = "return"]

\* SignPSS, lines 175-183: up to decrypt's return or first rand.Int call.
SignPSSEnter(random, priv, hLen, hashed, salt) ==
    LET e == emsaPSSEncode(hashed, BitLen(priv.N) - 1, salt, HashNew(hLen))
    IN  IF e.err # NoError
        THEN [err |-> e.err, dec |-> <<>>]
        ELSE [err |-> NoError,
              dec |-> <<decryptEnter(random, priv, BytesToInt(e.em))>>]

\* SignPSS, lines 181-186, on decrypt's return: [s, err].
SignPSSReturn(priv, a) ==
    IF a.err # NoError THEN [s |-> <<>>, err |-> a.err]
    ELSE [s |-> <<copyWithLeftPad(Zeros(GoDiv(BitLen(priv.N) + 7, 8)),
                                  IntToBytes(a.m[1]))>>,
          err |-> NoError]

\* ------------------------------------------------------- inputs

\* Hashed messages offered to the calls (of lengths 0, 1 and 2) and salts.
Digests == {<<>>, <<5>>, <<200>>, <<7, 9>>}
Salts == {<<>>, <<0>>, <<171>>, <<1, 2>>}
HLens == 1..MaxHLen
SLens == (0 - MaxNegSLen)..MaxSLen

\* What the random source may deliver to rand.Int(random, N): values of [0, N).
Draws(priv) ==
    (0..MaxDraw) \cup {priv.Primes[i] : i \in DOMAIN priv.Primes}
                 \cup {priv.N - 1}

\* Ciphertexts handed to decrypt directly, in and out of range.
Ciphers(priv) ==
    (0..MaxCipher) \cup {priv.Primes[i] : i \in DOMAIN priv.Primes}
                   \cup {priv.N - 1, priv.N, priv.N + 1}

\* Encoded messages of length emLen built by hand: first octet x, last octet
\* t, the octet before it hb, any others y.
CraftedEMs(emLen) ==
    {[k \in 1..emLen |->
        IF k = emLen THEN t
        ELSE IF k = 1 THEN x
        ELSE IF k = emLen - 1 THEN hb ELSE y] :
     x \in 0..2, y \in 0..1, hb \in 0..MaxCraftH, t \in {188, 187}}

\* Signature octet strings that do not come from SignPSS: the ones that the
\* public operation maps to a crafted encoded message, and a few others,
\* among them values at and above N.
CraftedSigs(priv) ==
    {IntToBytes(ModExp(BytesToInt(em), priv.D, priv.N)) :
        em \in CraftedEMs(GoDiv(BitLen(priv.N) - 1 + 7, 8))}
    \cup {<<>>, <<0, 0>>, IntToBytes(priv.N), IntToBytes(priv.N + 1)}

\* Buffers and seeds handed to mgf1XOR directly.
MgfOuts == {<<>>, <<0>>, <<255, 1>>, <<1, 2, 3>>, <<0, 0, 0, 0, 0>>}
MgfSeeds == {<<>>, <<9>>, <<3, 4>>}
\* A hash instance, of size n, as a caller may hand it over: reset or not.
HashInstances(n) == {HashNew(n), HashWrite(HashNew(n), <<66>>)}

\* ------------------------------------------------------- the calls

\* pc:   "idle", or "blind" while a decrypt waits in rand.Int
\* call: the function called from outside, "none" before any call
\* sgn:  the SignPSS call, its arguments and results      (<<>> or <<rec>>)
\* dec:  the decrypt activation                           (<<>> or <<rec>>)
\* ver:  the VerifyPSS call, its arguments and results    (<<>> or <<rec>>)
\* enc:  the direct emsaPSSEncode call                    (<<>> or <<rec>>)
\* mgf:  the direct mgf1XOR call                          (<<>> or <<rec>>)
VARIABLES pc, call, sgn, dec, ver, enc, mgf

vars == <<pc, call, sgn, dec, ver, enc, mgf>>

Init ==
    /\ pc = "idle"
    /\ call = "none"
    /\ sgn = <<>>
    /\ dec = <<>>
    /\ ver = <<>>
    /\ enc = <<>>
    /\ mgf = <<>>

PcOf(d) == IF d # <<>> /\ d[1].at = "rand.Int" THEN "blind" ELSE "idle"

\* The SignPSS record once SignPSS has returned, or while its decrypt waits.
SignRecord(args, err, d) ==
    LET ret == IF err # NoError THEN [s |-> <<>>, err |-> err]
               ELSE IF d[1].at = "return" THEN SignPSSReturn(args.priv, d[1])
               ELSE [s |-> <<>>, err |-> NoError]
    IN  [priv |-> args.priv, random |-> args.random, hLen |-> args.hLen,
         hashed |-> args.hashed, salt |-> args.salt,
         s |-> ret.s, err |-> ret.err,
         returned |-> (err # NoError \/ d[1].at = "return")]

\* SignPSS(rand, priv, hash, hashed, salt) is called.
CallSignPSS ==
    /\ pc = "idle" /\ call = "none"
    /\ \E priv \in Keys, random \in BOOLEAN, hLen \in HLens,
          hashed \in Digests, salt \in Salts :
          LET e == SignPSSEnter(random, priv, hLen, hashed, salt)
              args == [priv |-> priv, random |-> random, hLen |-> hLen,
                       hashed |-> hashed, salt |-> salt]
          IN  /\ call' = "SignPSS"
              /\ dec' = e.dec
              /\ pc' = PcOf(e.dec)
              /\ sgn' = <<SignRecord(args, e.err, e.dec)>>
    /\ UNCHANGED <<ver, enc, mgf>>

\* decrypt(random, priv, c) is called.
CallDecrypt ==
    /\ pc = "idle" /\ call = "none"
    /\ \E priv \in Keys, random \in BOOLEAN :
        \E c \in Ciphers(priv) :
          /\ call' = "decrypt"
          /\ dec' = <<decryptEnter(random, priv, c)>>
          /\ pc' = PcOf(dec')
    /\ UNCHANGED <<sgn, ver, enc, mgf>>

\* The waiting decrypt goes on with d, and SignPSS with it when it returns.
Resume(d) ==
    /\ dec' = <<d>>
    /\ pc' = PcOf(dec')
    /\ sgn' = IF call = "SignPSS"
              THEN <<SignRecord(sgn[1], NoError, dec')>> ELSE sgn
    /\ UNCHANGED <<call, ver, enc, mgf>>

\* rand.Int delivers r0.
RandInt(r0) ==
    /\ pc = "blind"
    /\ Resume(decryptDraw(dec[1], r0))

\* rand.Int fails.
RandErr ==
    /\ pc = "blind"
    /\ Resume(decryptRandErr(dec[1]))

\* Any draw, and the draws that are coprime to N.
RandAny ==
    /\ pc = "blind"
    /\ \E r0 \in Draws(dec[1].priv) : RandInt(r0)
RandCoprime ==
    /\ pc = "blind"
    /\ \E r0 \in Draws(dec[1].priv) :
        /\ ExtGCD(IF r0 = 0 THEN 1 ELSE r0, dec[1].priv.N).g = 1
        /\ RandInt(r0)


\* The VerifyPSS record of a call and its outcome.
VerifyRecord(pub, hLen, hashed, sig, sLen) ==
    LET v == VerifyPSS(pub, hLen, hashed, sig, sLen)
    IN  [pub |-> pub, hLen |-> hLen, hashed |-> hashed, sig |-> sig,
         sLen |-> sLen, err |-> v.err, hash |-> v.hash]

\* VerifyPSS(pub, hash, hashed, sig, sLen) is called on what SignPSS returned:
\* its signature s, or the octets of s + k*N, with any digest and salt length.
CallVerifyPSSSigned ==
    /\ pc = "idle" /\ call = "SignPSS"
    /\ sgn[1].err = NoError
    /\ \E hashed \in Digests, sLen \in SLens, k \in 0..1 :
          LET sg  == sgn[1]
              sig == IF k = 0 THEN sg.s[1]
                     ELSE IntToBytes(BytesToInt(sg.s[1]) + k * sg.priv.N)
          IN  ver' = <<VerifyRecord(PublicKey(sg.priv), sg.hLen, hashed,
                                    sig, sLen)>>
    /\ call' = "VerifyPSS"
    /\ dec' = <<>>
    /\ UNCHANGED <<pc, sgn, enc, mgf>>

\* VerifyPSS is called on a signature that SignPSS did not make.
CallVerifyPSSCrafted ==
    /\ pc = "idle" /\ call = "none"
    /\ \E priv \in PrecomputedKeys, hLen \in HLens, hashed \in Digests,
          sLen \in SLens :
        \E sig \in CraftedSigs(priv) :
          ver' = <<VerifyRecord(PublicKey(priv), hLen, hashed, sig, sLen)>>
    /\ call' = "VerifyPSS"
    /\ UNCHANGED <<pc, sgn, dec, enc, mgf>>

\* emsaPSSEncode(mHash, emBits, salt, hash) is called directly.
CallEmsaPSSEncode ==
    /\ pc = "idle" /\ call = "none"
    /\ \E mHash \in Digests, emBits \in 0..MaxEmBits, salt \in Salts,
          hLen \in HLens :
        \E hash \in HashInstances(hLen) :
          LET e == emsaPSSEncode(mHash, emBits, salt, hash)
          IN  enc' = <<[mHash |-> mHash, emBits |-> emBits, salt |-> salt,
                        hashIn |-> hash, em |-> e.em, err |-> e.err,
                        hash |-> e.hash]>>
    /\ call' = "emsaPSSEncode"
    /\ UNCHANGED <<pc, sgn, dec, ver, mgf>>

\* mgf1XOR(out, hash, seed) is called directly.
CallMgf1XOR ==
    /\ pc = "idle" /\ call = "none"
    /\ \E out \in MgfOuts, seed \in MgfSeeds, hLen \in HLens :
        \E hash \in HashInstances(hLen) :
          LET g == mgf1XOR(out, hash, seed)
          IN  mgf' = <<[outIn |-> out, seed |-> seed, hashIn |-> hash,
                        out |-> g.out, hash |-> g.hash]>>
    /\ call' = "mgf1XOR"
    /\ UNCHANGED <<pc, sgn, dec, ver, enc>>

Next ==
    \/ CallSignPSS
    \/ CallDecrypt
    \/ RandAny
    \/ RandErr
    \/ CallVerifyPSSSigned
    \/ CallVerifyPSSCrafted
    \/ CallEmsaPSSEncode
    \/ CallMgf1XOR

Spec == Init /\ [][Next]_vars

\* The random source eventually delivers a value coprime to N, or fails.
FairSpec == Spec /\ WF_vars(RandCoprime)

\* ------------------------------------------------------- properties

\* The octet lengths of a modulus: of its signatures and of its encoded
\* messages.
SigLen(n) == GoDiv(BitLen(n) + 7, 8)
EmLen(n) == GoDiv(BitLen(n) - 1 + 7, 8)

\* The VerifyPSS call in ver was made on the signature, the digest and the
\* salt length of the SignPSS call in sgn.
VerifiesOwn ==
    /\ ver # <<>> /\ sgn # <<>>
    /\ sgn[1].err = NoError /\ sgn[1].returned
    /\ ver[1].sig = sgn[1].s[1]
    /\ ver[1].hashed = sgn[1].hashed
    /\ ver[1].sLen = Len(sgn[1].salt)

\* C1 - round trip.  SignPSS on a digest of length hLen and a salt with
\* emLen >= hLen + len(salt) + 2 fails only if its random source fails, its
\* signature has ceil(bitlength(N)/8) octets, and VerifyPSS on that
\* signature, the same digest and len(salt) returns nil; for keys with and
\* without precomputed values, with and without a random source.
C1_RoundTrip ==
    /\ (sgn # <<>> /\ sgn[1].returned) =>
        LET sg   == sgn[1]
            fits == /\ Len(sg.hashed) = sg.hLen
                    /\ EmLen(sg.priv.N) >= sg.hLen + Len(sg.salt) + 2
        IN  /\ fits => sg.err \in {NoError, ErrRandom}
            /\ (fits /\ ~sg.random) => sg.err = NoError
            /\ sg.err = NoError => Len(sg.s[1]) = SigLen(sg.priv.N)
    /\ VerifiesOwn => ver[1].err = NoError

\* A blinded signature with a salt, made with precomputed values, verified.
C1_Witness ==
    /\ VerifiesOwn
    /\ ver[1].err = NoError
    /\ sgn[1].random
    /\ sgn[1].priv.Precomputed.Dp # <<>>
    /\ Len(sgn[1].salt) = 1

\* C2 - malformed signature.  VerifyPSS never accepts a signature whose
\* big-endian integer value exceeds N, the octets of s + N for a valid
\* signature s among them.
C2_RejectsAboveN ==
    (ver # <<>> /\ BytesToInt(ver[1].sig) > ver[1].pub.N)
        => ver[1].err # NoError

\* C3 - decrypt's range check.  decrypt returns ErrDecryption and no
\* plaintext for every c >= N, c = N included, and never returns it for
\* c < N.
C3_RangeCheck ==
    (dec # <<>> /\ dec[1].at = "return") =>
        LET a == dec[1]
        IN  /\ a.c >= a.priv.N => (a.err = ErrDecryption /\ a.m = <<>>)
            /\ a.c < a.priv.N => a.err # ErrDecryption

\* decrypt has returned a plaintext for an in-range ciphertext.
Decrypted ==
    /\ dec # <<>>
    /\ dec[1].at = "return" /\ dec[1].err = NoError
    /\ dec[1].c < dec[1].priv.N

\* C4 - blinding equivalence.  For c < N, decrypt with a random source
\* returns, whatever was drawn (0, taken as 1, and draws rejected before
\* the one used), the plaintext that decrypt returns without a random
\* source, and SignPSS returns the signature it returns without one.
C4_BlindingEquivalence ==
    /\ Decrypted =>
        /\ dec[1].m = decryptEnter(FALSE, dec[1].priv, dec[1].c).m
        /\ dec[1].r # <<0>>
    /\ (sgn # <<>> /\ sgn[1].returned /\ sgn[1].err = NoError) =>
        LET sg == sgn[1]
            e  == SignPSSEnter(FALSE, sg.priv, sg.hLen, sg.hashed, sg.salt)
        IN  sg.s = SignPSSReturn(sg.priv, e.dec[1]).s

\* SignPSS has returned a signature blinded with r = N - 1.
C4_Witness ==
    /\ Decrypted
    /\ call = "SignPSS" /\ sgn[1].returned /\ sgn[1].err = NoError
    /\ dec[1].random
    /\ dec[1].r = <<dec[1].priv.N - 1>>

\* C5 - CRT/non-CRT equivalence.  For c < N the plaintext that decrypt
\* returns, by CRT with two primes or more when the key has precomputed
\* values, is c^D mod N, a value of [0, N).
C5_CRTEquivalence ==
    Decrypted =>
        LET a == dec[1]
        IN  /\ a.m[1] = ModExp(a.c, a.priv.D, a.priv.N)
            /\ a.m[1] \in 0..(a.priv.N - 1)

\* decrypt has returned a plaintext other than 0 and 1 computed with the
\* CRT values of a third and a fourth prime.
C5_Witness ==
    /\ Decrypted
    /\ Len(dec[1].priv.Precomputed.CRTValues) = 2
    /\ dec[1].c > 1 /\ dec[1].m[1] > 1

\* C6 - emsaPSSEncode's preconditions.  emsaPSSEncode fails exactly when
\* len(mHash) # hLen or emLen < hLen + sLen + 2, the digest length being
\* tested first, and otherwise returns an encoded message of emLen octets:
\* emLen = hLen + sLen + 2 succeeds and emLen = hLen + sLen + 1 fails.
C6_EncodePreconditions ==
    enc # <<>> =>
        LET e     == enc[1]
            hLen  == e.hashIn.size
            sLen  == Len(e.salt)
            emLen == GoDiv(e.emBits + 7, 8)
        IN  /\ e.err # NoError
                <=> (Len(e.mHash) # hLen \/ emLen < hLen + sLen + 2)
            /\ Len(e.mHash) # hLen => e.err = ErrHashed
            /\ (Len(e.mHash) = hLen /\ emLen < hLen + sLen + 2)
                => e.err = ErrEncoding
            /\ e.err # NoError => e.em = <<>>
            /\ e.err = NoError => Len(e.em) = emLen

\* emsaPSSEncode has succeeded on the tightest fit, with a salt.
C6_Witness ==
    /\ enc # <<>>
    /\ enc[1].err = NoError
    /\ Len(enc[1].salt) = 2
    /\ GoDiv(enc[1].emBits + 7, 8) = enc[1].hashIn.size + 2 + 2

\* C7 - VerifyPSS's outcomes.  Every call of VerifyPSS, for any digest, any
\* signature and any salt length, negative ones included, ends in nil or
\* in ErrVerification, never in a run-time panic.
C7_TwoOutcomes ==
    ver # <<>> => ver[1].err \in {NoError, ErrVerification}

\* C8 - hash-instance reset.  A hash instance that is reset on entry is
\* reset after mgf1XOR and when emsaPSSEncode and emsaPSSVerify return, on
\* their early returns, on the final mismatch and on success.
C8_HashReset ==
    /\ (mgf # <<>> /\ mgf[1].hashIn.buf = <<>>) => mgf[1].hash.buf = <<>>
    /\ (enc # <<>> /\ enc[1].hashIn.buf = <<>>) => enc[1].hash.buf = <<>>
    /\ (ver # <<>> /\ ver[1].err # Panic) => ver[1].hash.buf = <<>>

\* One turn of the blinding loop as decrypt's activation shows it, from a
\* to b: a fresh draw after a value not coprime to N, the return of the
\* random source's error with no plaintext, or the break with an r of
\* [1, N) and its inverse.
LoopTurn(a, b) ==
    LET n == a.priv.N
    IN  /\ b.priv = a.priv /\ b.c = a.c
        /\ \/ /\ b.at = "rand.Int"
              /\ b.r # <<>> /\ b.r[1] \in 1..(n - 1)
              /\ ExtGCD(b.r[1], n).g # 1
              /\ b.ir = <<>> /\ b.m = <<>> /\ b.err = NoError
           \/ /\ b.at = "return"
              /\ b.err = ErrRandom /\ b.m = <<>>
           \/ /\ b.at = "return"
              /\ b.err = NoError /\ b.m # <<>>
              /\ b.r # <<>> /\ b.r[1] \in 1..(n - 1)
              /\ b.ir # <<>> /\ MulMod(b.r[1], b.ir[1], n) = 1

\* C9 - the blinding retry loop.  Each draw either is rejected, r not being
\* coprime to N, and followed by a fresh draw, or ends the loop with an r
\* of [1, N) and an ir with r * ir = 1 mod N, or is an error of the random
\* source that decrypt returns with no plaintext; and if the source keeps
\* delivering values coprime to N the loop, and decrypt, terminates.
C9_BlindingLoop ==
    /\ [][pc = "blind" => LoopTurn(dec[1], dec'[1])]_vars
    /\ [](pc = "blind" <=> (dec # <<>> /\ dec[1].at = "rand.Int"))
    /\ (pc = "blind") ~> (pc = "idle")

\* decrypt, called by SignPSS, has drawn a value not coprime to N and is
\* about to draw again.
C9_Witness ==
    /\ pc = "blind" /\ call = "SignPSS"
    /\ dec[1].r # <<>>
    /\ ExtGCD(dec[1].r[1], dec[1].priv.N).g # 1

\* C10 - the encoded message fits the private operation.  An encoded
\* message of emsaPSSEncode has emLen octets, ends in 0xBC and has the
\* leading 8*emLen - emBits bits of its first octet clear; in SignPSS,
\* where emBits = bitlength(N) - 1, its integer value is below
\* 2^emBits <= N, and SignPSS never returns ErrDecryption.
C10_EncodedFits ==
    /\ (enc # <<>> /\ enc[1].err = NoError) =>
        LET e     == enc[1]
            emLen == GoDiv(e.emBits + 7, 8)
        IN  /\ Len(e.em) = emLen
            /\ e.em[emLen] = 188
            /\ e.em[1] < Pow2(8 - (8 * emLen - e.emBits))
    /\ (call = "SignPSS" /\ dec # <<>>) =>
        LET emBits == BitLen(dec[1].priv.N) - 1
        IN  /\ dec[1].c < Pow2(emBits)
            /\ Pow2(emBits) <= dec[1].priv.N
            /\ dec[1].err # ErrDecryption
    /\ sgn # <<>> => sgn[1].err # ErrDecryption

\* SignPSS has handed to decrypt an encoded message whose value has the
\* top bit that emBits allows set.
C10_Witness ==
    /\ call = "SignPSS" /\ dec # <<>>
    /\ dec[1].c >= Pow2(BitLen(dec[1].priv.N) - 2)
    /\ sgn[1].returned /\ sgn[1].err = NoError

====
